---- MODULE Spec2Model ----
(***************************************************************************)
(* The saltapi connection plugin (plugins/connection/saltapi.py): one      *)
(* Connection object, its lazily created requests session, and the calls   *)
(* the framework makes on it (_connect, exec_command, put_file,            *)
(* fetch_file, close).  Text is a sequence of one-character strings and     *)
(* file content a sequence of byte values.                                 *)
(***************************************************************************)
EXTENDS Naturals, Sequences, FiniteSets

VARIABLES
    host,            \* self.host (line 82)
    validate_certs,  \* option validate_certs (lines 38-43)
    token,           \* option token (lines 30-37)
    _session,        \* self._session (line 83)
    _connected,      \* self._connected (ConnectionBase, set at line 97)
    created,         \* number of requests.session() calls made so far (line 90)
    fresh,           \* no _connect and no operation has run yet on this connector
    localFiles,      \* the controller's files: local path -> bytes, or None
    remoteFiles,     \* the minion's files: remote path -> bytes, or None
    sent,            \* the HTTP requests posted by the last call
    last,            \* the last call: its arguments, the reply it got, how it ended
    norm             \* an application of _normalize_path: path, prefix, result

vars == <<host, validate_certs, token, _session, _connected, created, fresh,
          localFiles, remoteFiles, sent, last, norm>>

\* ---------------------------------------------------------------- bounds

\* Longest path _normalize_path is applied to in NormSpec.
MaxPathLen == 5
\* Longest local file.
MaxFileLen == 2

\* ------------------------------------------------------------ text helpers

\* An optional value is a set of at most one element: None is absent.
None == {}
Some(x) == {x}
the(o) == CHOOSE x \in o : TRUE

Range(s) == {s[i] : i \in 1..Len(s)}

RECURSIVE SeqsUpTo(_, _)
SeqsUpTo(S, n) ==
    IF n = 0 THEN {<<>>}
    ELSE LET shorter == SeqsUpTo(S, n - 1)
         IN  shorter \cup {Append(s, x) : s \in {t \in shorter : Len(t) = n - 1}, x \in S}

\* os.path.sep on the POSIX controller the plugin runs on.
sep == "/"

\* str.startswith
startswith(s, p) == Len(s) >= Len(p) /\ SubSeq(s, 1, Len(p)) = p

\* str.split('/')
RECURSIVE split(_)
split(s) ==
    IF sep \notin Range(s) THEN <<s>>
    ELSE LET i == CHOOSE k \in 1..Len(s) : s[k] = sep /\ \A j \in 1..(k - 1) : s[j] # sep
         IN  <<SubSeq(s, 1, i - 1)>> \o split(SubSeq(s, i + 1, Len(s)))

\* '/'.join(comps)
RECURSIVE joinComps(_)
joinComps(comps) ==
    IF comps = <<>> THEN <<>>
    ELSE IF Len(comps) = 1 THEN comps[1]
    ELSE comps[1] \o <<sep>> \o joinComps(Tail(comps))

DotDot == <<".", ".">>

\* The component loop of posixpath.normpath.
RECURSIVE normComps(_, _, _)
normComps(comps, new_comps, initial_slashes) ==
    IF comps = <<>> THEN new_comps
    ELSE LET comp == Head(comps)
             rest == Tail(comps)
         IN  IF Len(comp) = 0 \/ comp = <<".">>
             THEN normComps(rest, new_comps, initial_slashes)
             ELSE IF \/ comp # DotDot
                     \/ (initial_slashes = 0 /\ Len(new_comps) = 0)
                     \/ (Len(new_comps) > 0 /\ new_comps[Len(new_comps)] = DotDot)
             THEN normComps(rest, Append(new_comps, comp), initial_slashes)
             ELSE IF Len(new_comps) > 0
             THEN normComps(rest, SubSeq(new_comps, 1, Len(new_comps) - 1), initial_slashes)
             ELSE normComps(rest, new_comps, initial_slashes)

\* os.path.normpath (posixpath): exactly two leading slashes are kept.
normpath(path) ==
    IF Len(path) = 0 THEN <<".">>
    ELSE LET initial_slashes ==
                 IF ~startswith(path, <<sep>>) THEN 0
                 ELSE IF startswith(path, <<sep, sep>>) /\ ~startswith(path, <<sep, sep, sep>>)
                      THEN 2 ELSE 1
             body == joinComps(normComps(split(path), <<>>, initial_slashes))
             out  == [i \in 1..initial_slashes |-> sep] \o body
         IN  IF Len(out) = 0 THEN <<".">> ELSE out

\* os.path.join(a, b) (posixpath): an absolute b discards a.
join(a, b) ==
    IF startswith(b, <<sep>>) THEN b
    ELSE IF Len(a) = 0 \/ a[Len(a)] = sep THEN a \o b
    ELSE a \o <<sep>> \o b

\* Connection._normalize_path
_normalize_path(path, prefix) ==
    LET abs == IF ~startswith(path, <<sep>>) THEN join(<<sep>>, path) ELSE path
        np  == normpath(abs)
    IN  join(prefix, SubSeq(np, 2, Len(np)))

\* ------------------------------------------------------------------ base64

\* The base64 alphabet (RFC 4648), as base64.b64encode uses it.
b64alphabet ==
    <<"A", "B", "C", "D", "E", "F", "G", "H", "I", "J", "K", "L", "M", "N", "O", "P",
      "Q", "R", "S", "T", "U", "V", "W", "X", "Y", "Z", "a", "b", "c", "d", "e", "f",
      "g", "h", "i", "j", "k", "l", "m", "n", "o", "p", "q", "r", "s", "t", "u", "v",
      "w", "x", "y", "z", "0", "1", "2", "3", "4", "5", "6", "7", "8", "9", "+", "/">>

b64pad == "="

b64index(ch) == (CHOOSE i \in 1..Len(b64alphabet) : b64alphabet[i] = ch) - 1

\* base64.b64encode(data).decode('utf8'): 3 bytes become 4 characters.
b64encode(data) ==
    LET n      == Len(data)
        groups == (n + 2) \div 3
        byte(k) == IF k <= n THEN data[k] ELSE 0
        word(g) == byte(3 * g + 1) * 65536 + byte(3 * g + 2) * 256 + byte(3 * g + 3)
        char(g, j) ==
            IF j = 0 THEN b64alphabet[(word(g) \div 262144) + 1]
            ELSE IF j = 1 THEN b64alphabet[((word(g) \div 4096) % 64) + 1]
            ELSE IF j = 2
                 THEN IF 3 * g + 2 > n THEN b64pad
                      ELSE b64alphabet[((word(g) \div 64) % 64) + 1]
            ELSE IF 3 * g + 3 > n THEN b64pad
                 ELSE b64alphabet[(word(g) % 64) + 1]
    IN  [i \in 1..(4 * groups) |-> char((i - 1) \div 4, (i - 1) % 4)]

\* The minion's hashutil.base64_decodefile applied to well-formed base64 text.
b64decode(text) ==
    LET groups == Len(text) \div 4
        pads   == Cardinality({i \in 1..Len(text) : text[i] = b64pad})
        val(k) == IF text[k] = b64pad THEN 0 ELSE b64index(text[k])
        word(g) == val(4 * g + 1) * 262144 + val(4 * g + 2) * 4096
                   + val(4 * g + 3) * 64 + val(4 * g + 4)
        byte(g, j) ==
            IF j = 0 THEN word(g) \div 65536
            ELSE IF j = 1 THEN (word(g) \div 256) % 256
            ELSE word(g) % 256
    IN  [i \in 1..(3 * groups - pads) |-> byte((i - 1) \div 3, (i - 1) % 3)]

\* ------------------------------------------------------------ sample inputs

Hosts == {"minion1", "minion2"}
Tokens == {"tokA", "tokB"}
LocalPaths == {"local1", "local2"}
ByteSample == {0, 255}
Contents == SeqsUpTo(ByteSample, MaxFileLen)

Text_bash == <<"b", "a", "s", "h">>
Cmds == {<<"t", "r", "u", "e">>, <<"f", "a", "l", "s", "e">>}
InData == {None, Some(<<>>), Some(<<120>>)}

\* Remote paths handed to put_file and fetch_file: "/a", "a", "b", "//a", "/b/../a".
ArgPaths ==
    {<<"/", "a">>, <<"a">>, <<"b">>, <<"/", "/", "a">>,
     <<"/", "b", "/", ".", ".", "/", "a">>}

\* Per-host results of cmd.exec_code_all, and the replies of the salt-api server.
Results ==
    {[retcode |-> 0, stdout |-> "out", stderr |-> ""],
     [retcode |-> 1, stdout |-> "", stderr |-> "err"]}
NoReply == [kind |-> "none", ret |-> <<>>, status |-> 0]
Unreachable == [kind |-> "unreachable", ret |-> <<>>, status |-> 0]
ExecReplies ==
    {Unreachable} \cup
    {[kind |-> "json", ret |-> r, status |-> 200] :
        r \in UNION {[S -> Results] : S \in SUBSET Hosts}}
PutReplies ==
    {Unreachable} \cup {[kind |-> "status", ret |-> <<>>, status |-> st] : st \in {200, 404, 500}}

\* Paths and prefixes _normalize_path is applied to in NormSpec.
PathChars == {"/", ".", "a"}
AbsPaths == {p \in SeqsUpTo(PathChars, MaxPathLen) : startswith(p, <<sep>>)}
Prefixes == {<<"/">>, <<"/", "x">>, <<"/", "x", "/">>, <<"x">>, <<>>}

\* --------------------------------------------------------------- connector

\* Lines 63-69: the import of requests decides HAS_REQUESTS once per process.
\* The model follows the process in which requests is importable, the only one
\* in which a session can exist at all.
HAS_REQUESTS == TRUE

\* The connector fields a call reads and writes.
Self == [session |-> _session, connected |-> _connected, created |-> created]

Ok(c) == [c |-> c, exc |-> "return"]
Raised(c, e) == [c |-> c, exc |-> e]

\* _get_session without the `if not self._session` test: a session per call.
_get_session_always_new(c) ==
    IF ~HAS_REQUESTS THEN Raised(c, "NameError")
    ELSE Ok([c EXCEPT !.session = Some([id |-> c.created + 1,
                                         verify |-> validate_certs,
                                         headers |-> token]),
                       !.created = c.created + 1])

\* Connection._get_session.  Line 87 names AnsibleError, which the module never
\* imports (only `errors`), so that raise ends as a NameError.
_get_session(c) ==
    IF ~HAS_REQUESTS THEN Raised(c, "NameError")
    ELSE IF c.session = None
    THEN Ok([c EXCEPT !.session = Some([id |-> c.created + 1,
                                         verify |-> validate_certs,
                                         headers |-> token]),
                       !.created = c.created + 1])
    ELSE Ok(c)

\* _connect without its _get_session() call.
_connect_without_session(c) == Ok([c EXCEPT !.connected = TRUE])

\* Connection._connect
_connect(c) ==
    LET g == _get_session(c)
    IN  IF g.exc # "return" THEN g ELSE Ok([g.c EXCEPT !.connected = TRUE])

\* The super() call opening exec_command, put_file and fetch_file (lines 102,
\* 131, 155).  ansible.plugins.connection.ConnectionBase declares these three
\* methods under its ensure_connect decorator, whose wrapper runs
\* `if not self._connected: self._connect()` before the method body.
ensure_connect(c) == IF ~c.connected THEN _connect(c) ELSE Ok(c)

\* close that closes and drops the session without testing that there is one.
close_unguarded(c) ==
    IF c.session = None THEN Raised(c, "AttributeError")
    ELSE Ok([c EXCEPT !.session = None, !.connected = FALSE])

\* Connection.close: `pass`.
close(c) == Ok(c)

\* What a call hands back: the connector, how it ended, the requests it posted,
\* the reply it consumed, the value returned and the error message raised.
Outcome(c, exc, posted, reply, result, msg) ==
    [c |-> c, exc |-> exc, sent |-> posted, reply |-> reply, result |-> result, msg |-> msg]

Request(c, fun, arg) ==
    [client |-> "local", tgt |-> host, fun |-> fun, arg |-> arg, via |-> c.session]

\* The lookup written as .get(host, default).
PerHost_get_default(ret, h) ==
    IF h \in DOMAIN ret THEN Some(ret[h])
    ELSE Some([retcode |-> 0, stdout |-> "", stderr |-> ""])

\* resp.json()['return'][0][self.host]
PerHost(ret, h) == IF h \in DOMAIN ret THEN Some(ret[h]) ELSE None

\* exec_command without the in_data test.
truthy_ignored(in_data) == FALSE

\* `if in_data:` (line 104): None and the empty byte string are false.
truthy(in_data) == in_data # None /\ Len(the(in_data)) > 0

\* A non-zero retcode raised as an error, as fetch_file does with it.
exec_result_raising(c, req, reply, p) ==
    IF p.retcode # 0 THEN Outcome(c, "AnsibleError", <<req>>, reply, None, None)
    ELSE Outcome(c, "return", <<req>>, reply, Some(<<p.retcode, p.stdout, p.stderr>>), None)

\* Lines 118-120: a non-zero retcode is printed to stderr and the triple returned.
exec_result(c, req, reply, p) ==
    Outcome(c, "return", <<req>>, reply, Some(<<p.retcode, p.stdout, p.stderr>>), None)

\* Connection.exec_command
exec_command(c0, cmd, in_data, reply) ==
    LET e == ensure_connect(c0)
        c == e.c
        req == Request(c, "cmd.exec_code_all", <<Text_bash, cmd>>)
    IN  IF e.exc # "return" THEN Outcome(c, e.exc, <<>>, NoReply, None, None)
        ELSE IF truthy(in_data)
        THEN Outcome(c, "AnsibleError", <<>>, NoReply, None, None)
        ELSE IF c.session = None
        THEN Outcome(c, "AttributeError", <<>>, NoReply, None, None)
        ELSE IF reply.kind = "unreachable"
        THEN Outcome(c, "ConnectionError", <<req>>, reply, None, None)
        ELSE LET p == PerHost(reply.ret, host)
             IN  IF p = None
                 THEN Outcome(c, "KeyError", <<req>>, reply, None, None)
                 ELSE exec_result(c, req, reply, the(p))

\* A status test that takes only 5xx for a failure.
raise_for_status_5xx(status) == status >= 500 /\ status < 600

\* resp.raise_for_status(): 4xx and 5xx raise HTTPError.
raise_for_status(status) == status >= 400 /\ status < 600

\* The message of line 149.
TransferMsg(in_path, out_path, cause) ==
    [from |-> in_path, to |-> out_path, cause |-> cause]

\* Connection.put_file
put_file(c0, in_path, out_path0, reply) ==
    LET e == ensure_connect(c0)
        c == e.c
        out_path == _normalize_path(out_path0, <<sep>>)
    IN  IF e.exc # "return" THEN Outcome(c, e.exc, <<>>, NoReply, None, None)
        ELSE IF localFiles[in_path] = None
        THEN Outcome(c, "IOError", <<>>, NoReply, None, None)
        ELSE LET content == b64encode(the(localFiles[in_path]))
                 req == Request(c, "hashutil.base64_decodefile", <<content, out_path>>)
             IN  IF c.session = None
                 THEN Outcome(c, "AttributeError", <<>>, NoReply, None, None)
                 ELSE IF reply.kind = "unreachable"
                 THEN Outcome(c, "ConnectionError", <<req>>, reply, None, None)
                 ELSE IF raise_for_status(reply.status)
                 THEN Outcome(c, "AnsibleError", <<req>>, reply, None,
                              Some(TransferMsg(in_path, out_path, reply.status)))
                 ELSE Outcome(c, "return", <<req>>, reply, None, None)

\* Connection.fetch_file: line 159 calls str.format() with no argument on a
\* template holding {0}, which raises IndexError before exec_command is called;
\* lines 161-163 are never reached and local out_path is never written.
fetch_file(c0, in_path0, out_path) ==
    LET e == ensure_connect(c0)
        c == e.c
        in_path == _normalize_path(in_path0, <<sep>>)
    IN  IF e.exc # "return" THEN Outcome(c, e.exc, <<>>, NoReply, None, None)
        ELSE Outcome(c, "IndexError", <<>>, NoReply, None, None)

\* ------------------------------------------------------------------ actions

NoCall ==
    [op |-> "none", first |-> FALSE, cmd |-> <<>>, in_data |-> None, local |-> "",
     remote |-> <<>>, reply |-> NoReply, outcome |-> "return", result |-> None,
     msg |-> None]

NoNorm == [path |-> <<>>, prefix |-> <<>>, result |-> None]

RemotePaths == {_normalize_path(p, <<sep>>) : p \in ArgPaths}

\* Connection.__init__, with the options and the controller's files as found.
Init ==
    /\ host \in Hosts
    /\ validate_certs \in BOOLEAN
    /\ token \in Tokens
    /\ _session = None
    /\ _connected = FALSE
    /\ created = 0
    /\ fresh = TRUE
    /\ localFiles \in {[l \in LocalPaths |-> IF l = "local1" THEN Some(b) ELSE None] :
                          b \in Contents}
    /\ remoteFiles = [p \in RemotePaths |-> None]
    /\ sent = <<>>
    /\ last = NoCall
    /\ norm = NoNorm

\* The connector and the call record after a call that ended as r.
Finish(r, call) ==
    /\ _session' = r.c.session
    /\ _connected' = r.c.connected
    /\ created' = r.c.created
    /\ sent' = r.sent
    /\ last' = [call EXCEPT !.reply = r.reply, !.outcome = r.exc,
                            !.result = r.result, !.msg = r.msg]
    /\ UNCHANGED <<host, validate_certs, token, norm>>

\* A call that posts nothing: _get_session, _connect, close.
Plain(g) == Outcome(g.c, g.exc, <<>>, NoReply, None, None)

GetSession ==
    /\ Finish(Plain(_get_session(Self)), [NoCall EXCEPT !.op = "_get_session"])
    /\ UNCHANGED <<fresh, localFiles, remoteFiles>>

Connect ==
    /\ Finish(Plain(_connect(Self)), [NoCall EXCEPT !.op = "_connect", !.first = fresh])
    /\ fresh' = FALSE
    /\ UNCHANGED <<localFiles, remoteFiles>>

ExecCommand ==
    \E cmd \in Cmds, in_data \in InData, reply \in ExecReplies :
        /\ Finish(exec_command(Self, cmd, in_data, reply),
                  [NoCall EXCEPT !.op = "exec_command", !.first = fresh,
                                 !.cmd = cmd, !.in_data = in_data])
        /\ fresh' = FALSE
        /\ UNCHANGED <<localFiles, remoteFiles>>

\* The minion runs hashutil.base64_decodefile on the arguments of a request the
\* server answered with a success status.
Decodefile(r) ==
    IF Len(r.sent) = 1 /\ r.reply.kind = "status" /\ ~raise_for_status(r.reply.status)
    THEN [remoteFiles EXCEPT ![r.sent[1].arg[2]] = Some(b64decode(r.sent[1].arg[1]))]
    ELSE remoteFiles

PutFile ==
    \E in_path \in LocalPaths, out_path \in ArgPaths, reply \in PutReplies :
        LET r == put_file(Self, in_path, out_path, reply)
        IN  /\ Finish(r, [NoCall EXCEPT !.op = "put_file", !.first = fresh,
                                        !.local = in_path, !.remote = out_path])
            /\ remoteFiles' = Decodefile(r)
            /\ fresh' = FALSE
            /\ UNCHANGED localFiles

FetchFile ==
    \E in_path \in ArgPaths, out_path \in LocalPaths :
        /\ Finish(fetch_file(Self, in_path, out_path),
                  [NoCall EXCEPT !.op = "fetch_file", !.first = fresh,
                                 !.local = out_path, !.remote = in_path])
        /\ fresh' = FALSE
        /\ UNCHANGED <<localFiles, remoteFiles>>

Close ==
    /\ Finish(Plain(close(Self)), [NoCall EXCEPT !.op = "close"])
    /\ UNCHANGED <<fresh, localFiles, remoteFiles>>

Next == GetSession \/ Connect \/ ExecCommand \/ PutFile \/ FetchFile \/ Close

Spec == Init /\ [][Next]_vars

\* ----------------------------------------- _normalize_path as a pure function

NormInit ==
    /\ host = "minion1"
    /\ validate_certs = TRUE
    /\ token = "tokA"
    /\ _session = None
    /\ _connected = FALSE
    /\ created = 0
    /\ fresh = TRUE
    /\ localFiles = [l \in LocalPaths |-> None]
    /\ remoteFiles = [p \in RemotePaths |-> None]
    /\ sent = <<>>
    /\ last = NoCall
    /\ norm \in {[path |-> p, prefix |-> pre, result |-> None] :
                    p \in AbsPaths, pre \in Prefixes}

Normalize ==
    /\ norm.result = None
    /\ norm' = [norm EXCEPT !.result = Some(_normalize_path(norm.path, norm.prefix))]
    /\ UNCHANGED <<host, validate_certs, token, _session, _connected, created, fresh,
                   localFiles, remoteFiles, sent, last>>

NormNext == Normalize

NormSpec == NormInit /\ [][NormNext]_vars

\* ------------------------------------------------------------------ claims

IsOperation(op) == op \in {"exec_command", "put_file", "fetch_file"}
LiveSession == _session # None
HostReplied == last.reply.kind = "json" /\ host \in DOMAIN last.reply.ret
NoDotDot(path) == \A i \in 1..Len(split(path)) : split(path)[i] # DotDot

\* C1: the first call on a fresh connector, _connect or an operation, leaves the
\* connector with a live session; it never ends for lack of a session
\* (AttributeError on None), and every request it posts goes through that session.
C1_SessionOnFirstUse ==
    (last.first /\ (last.op = "_connect" \/ IsOperation(last.op))) =>
        /\ LiveSession
        /\ last.outcome # "AttributeError"
        /\ \A i \in 1..Len(sent) : sent[i].via = _session

\* An operation ran as the very first call and posted its request.
C1_Witness ==
    /\ last.first
    /\ last.op = "exec_command"
    /\ Len(sent) = 1
    /\ last.outcome = "return"

\* C2: after _connect the connector is Connected with a live session, and after a
\* later close() it is Disconnected and holds no session.
C2_CloseDisconnects ==
    /\ (last.op = "_connect" => (_connected /\ LiveSession))
    /\ ((last.op = "close" /\ ~fresh) => (~_connected /\ _session = None))

\* C3: close() returns normally in every state, and a close() right after a
\* close() leaves session, connected flag and host as the first one left them.
C3_CloseIdempotent ==
    [][/\ close(Self).exc = "return"
       /\ close(close(Self).c) = close(Self)
       /\ (last'.op = "close" => last'.outcome = "return")
       /\ ((last.op = "close" /\ last'.op = "close") =>
              <<_session', _connected', host'>> = <<_session, _connected, host>>)]_vars

\* close() ran on a connector that was never connected.
C3_Witness == last.op = "close" /\ fresh /\ _session = None /\ ~_connected

\* C4: at most one session is ever constructed; the one constructed carries
\* verify = validate_certs and X-Auth-Token = token, and once there is a session
\* every later call keeps that same instance, unchanged.
C4_OneSession ==
    [][/\ created' <= 1
       /\ (_session # None => _session' = _session)
       /\ (_session' # None =>
              /\ the(_session').id = 1
              /\ the(_session').verify = validate_certs
              /\ the(_session').headers = token)]_vars

\* _get_session ran again on a connector that _connect had given its session.
C4_Witness == last.op = "_get_session" /\ _connected /\ created = 1 /\ LiveSession

\* C5: on a Connected connector, a per-host result with a non-zero retcode makes
\* exec_command return (retcode, stdout, stderr) of that result, as for retcode 0,
\* and leaves session and connected flag as they were.
C5_NonZeroIsData ==
    [][(/\ _connected
        /\ last'.op = "exec_command"
        /\ last'.reply.kind = "json"
        /\ host \in DOMAIN last'.reply.ret) =>
           LET p == last'.reply.ret[host]
           IN  /\ last'.outcome = "return"
               /\ last'.result = Some(<<p.retcode, p.stdout, p.stderr>>)
               /\ _session' = _session
               /\ _connected' = _connected]_vars

\* exec_command got a non-zero retcode for its host on a connector connected before.
C5_Witness ==
    /\ last.op = "exec_command"
    /\ ~last.first
    /\ HostReplied
    /\ last.reply.ret[host].retcode # 0
    /\ last.result = Some(<<1, "", "err">>)

\* C6: exec_command with non-empty in_data ends in AnsibleError, returns no
\* triple and posts no request.
C6_InDataRejected ==
    (last.op = "exec_command" /\ last.in_data # None /\ Len(the(last.in_data)) > 0) =>
        /\ last.outcome = "AnsibleError"
        /\ last.result = None
        /\ sent = <<>>

\* exec_command was called with one byte of in_data.
C6_Witness == last.op = "exec_command" /\ last.in_data = Some(<<120>>)

\* C7: when return[0] of the reply has no entry for the connector's host,
\* exec_command ends in an error and returns no triple.
C7_MissingHostFails ==
    (last.op = "exec_command" /\ last.reply.kind = "json"
        /\ host \notin DOMAIN last.reply.ret) =>
        /\ last.outcome = "KeyError"
        /\ last.result = None

\* The reply held a result for the other host only.
C7_Witness ==
    /\ last.op = "exec_command"
    /\ last.reply.kind = "json"
    /\ host \notin DOMAIN last.reply.ret
    /\ DOMAIN last.reply.ret # {}

\* C8: fetch_file runs exec_command on the normalized remote path, decodes its
\* stdout and writes it to the local path, so that after put_file(local, remote)
\* a fetch_file(remote, local2) leaves local2 with the bytes of local.
C8_RoundTrip ==
    (last.op = "fetch_file" /\ remoteFiles[_normalize_path(last.remote, <<sep>>)] # None) =>
        /\ Len(sent) = 1
        /\ sent[1].fun = "cmd.exec_code_all"
        /\ localFiles[last.local] = remoteFiles[_normalize_path(last.remote, <<sep>>)]

\* C9: put_file of a readable local file posts exactly one request, to the
\* connector's host, with the base64 content and the remote path normalized
\* against '/'; a non-success status ends in AnsibleError whose message holds the
\* local path, the normalized remote path and the HTTP error; a success status
\* returns normally.
C9_PutFile ==
    (last.op = "put_file" /\ localFiles[last.local] # None) =>
        /\ Len(sent) = 1
        /\ sent[1].tgt = host
        /\ sent[1].fun = "hashutil.base64_decodefile"
        /\ b64decode(sent[1].arg[1]) = the(localFiles[last.local])
        /\ sent[1].arg[2] = _normalize_path(last.remote, <<sep>>)
        /\ (last.reply.kind = "status" /\ last.reply.status \in {404, 500} =>
               /\ last.outcome = "AnsibleError"
               /\ last.msg = Some([from |-> last.local,
                                   to |-> _normalize_path(last.remote, <<sep>>),
                                   cause |-> last.reply.status]))
        /\ (last.reply.kind = "status" /\ last.reply.status = 200 =>
               last.outcome = "return" /\ last.msg = None)

\* put_file of a relative remote path was answered 404.
C9_Witness ==
    /\ last.op = "put_file"
    /\ last.remote = <<"a">>
    /\ last.reply.status = 404
    /\ last.outcome = "AnsibleError"

\* C10: for an absolute path, the result of _normalize_path(path, prefix) has no
\* '..' segment and starts with prefix.
C10_UnderPrefix ==
    norm.result # None =>
        /\ NoDotDot(the(norm.result))
        /\ startswith(the(norm.result), norm.prefix)

====
